---- MODULE Spec2Model ----
(***************************************************************************)
(* createInMemoryStore (libs/core-functions/src/functions/                 *)
(* profiles-functions.ts, lines 200-371): a self-refreshing in-memory      *)
(* store with a cold load, a scheduler (setInterval or a setTimeout loop), *)
(* and a best-effort snapshot on disk.                                     *)
(*                                                                         *)
(* JavaScript values are written as strings holding their JSON text;       *)
(* Dates are integers (milliseconds); `undefined` is Undefined for values  *)
(* and NoDate for dates.                                                   *)
(***************************************************************************)
EXTENDS Integers, FiniteSets, Sequences, TLC

\* ------------------------------------------------------------- bounds
\* The clock runs from 1 to MaxTime.
MaxTime == 3

\* The most scheduled fetches that fail before the source recovers.
MaxFailures == 2

\* ------------------------------------------------------------- values
Undefined == "undefined"
NoDate == -1
\* Values the fetch operation may return in `store`: the number 0 (falsy)
\* and an object (truthy).
Values == {"0", "{a}"}
\* Last-modified markers the fetch operation may return.
Markers == {1, 2}
\* Messages of the errors the fetch operation may throw.
FetchErrors == {"E1", "E2"}
NoError == [message |-> "", cause |-> ""]
\* Callers of get().
Callers == {"c1", "c2"}

\* if (instance): JavaScript truthiness of the held value.
Truthy(v) == v \notin {Undefined, "0", "null", "false", "\"\""}

\* An Error thrown by the fetch operation, by the file system or a serializer.
Err(m) == [message |-> m, cause |-> ""]

\* new Error(`Failed to initialize store ... Initial load failed with
\* ${getErrorMessage(e)} and no local cache found`)
InitError(e) == [message |-> "Failed to initialize store", cause |-> e.message]

\* new Error("Not modified. (must never happen on first load)")
NotModifiedError == Err("Not modified")

\* ------------------------------------------------------------- disk
\* The cache file `${name}-latest.json`: absent, or holding some text.
NoFile == [exists |-> FALSE, text |-> ""]
File(t) == [exists |-> TRUE, text |-> t]
\* Text that the deserializer cannot parse.
Garbage == "#garbage#"
\* The file's mtime when the store is constructed (before the clock starts).
CacheMtime == 0

\* definition.serializer(instance) or JSON.stringify(instance)
serialize(v) == "json:" \o v

\* definition.deserializer(cached) or JSON.parse(cached); Undefined stands
\* for a thrown SyntaxError.
deserialize(t) ==
  IF \E v \in Values : t = serialize(v)
  THEN CHOOSE v \in Values : t = serialize(v)
  ELSE Undefined

\* Promise states.
Pending == [state |-> "pending", value |-> Undefined, reason |-> NoError]
Resolved(v) == [state |-> "resolved", value |-> v, reason |-> NoError]
Rejected(e) == [state |-> "rejected", value |-> Undefined, reason |-> e]

\* Outcomes of definition.refresh().
NotModified == [kind |-> "not_modified", store |-> Undefined, lastModified |-> NoDate]
Fresh(v, m) == [kind |-> "fresh", store |-> v, lastModified |-> m]
FreshOutcomes == {Fresh(v, m) : v \in Values, m \in Markers \cup {NoDate}}
Outcomes == FreshOutcomes \cup {NotModified}

VARIABLES
  \* StoreDefinition
  refreshIntervalMillis, localDir,
  \* closure state of createInMemoryStore
  status, instance, lastRefresh, lastModified, stopping, intervalToClear,
  instancePromise,
  \* position of the cold load: "fetch" (definition.refresh() in flight),
  \* "catch" (the .catch handler is queued with coldError), "done"
  coldPc, coldError,
  \* the runtime's timer: the setInterval timer or the loop's setTimeout
  timer,
  \* scheduled refresh() calls awaiting definition.refresh(lastModified)
  inflight,
  \* the file system: the cache file and the fs.writeFile calls in progress
  disk, writes,
  \* wall clock (new Date())
  now,
  \* what each caller's latest get() returned
  gets,
  \* observations: invocations of definition.refresh() by the cold load and
  \* by the scheduler, whether one started after stop(), and the number of
  \* scheduleStoreRefresh() calls
  coldFetches, schedFetches, fetchAfterStop, schedCalls,
  \* observation: the latest scheduled refresh() to finish: how it ended,
  \* which invocation it was and the value it assigned
  lastOutcome

vars == <<refreshIntervalMillis, localDir, status, instance, lastRefresh,
          lastModified, stopping, intervalToClear, instancePromise, coldPc,
          coldError, timer, inflight, disk, writes, now, gets, coldFetches,
          schedFetches, fetchAfterStop, schedCalls, lastOutcome>>

defVars == <<refreshIntervalMillis, localDir>>
obsVars == <<coldFetches, schedFetches, fetchAfterStop>>

\* refreshIntervalMillis of the definitions explored: loop mode (<= 0) and
\* interval mode (> 0).
RefreshIntervals == {0, 1}

\* setTimeout(..., 1) in loop()
LoopDelay == 1

NoTimer == [kind |-> "none", due |-> 0]
Interval(t) == [kind |-> "interval", due |-> t]
Timeout(t) == [kind |-> "timeout", due |-> t]

\* A caller's record: which promise its latest get() returned ("direct" is
\* Promise.resolve(instance), "shared" is instancePromise), the value held
\* and the position of the cold load when it was called.
NoOutcome == [kind |-> "none", id |-> 0, store |-> Undefined]
Ended(kind, r, v) == [kind |-> kind, id |-> r.id, store |-> v]

NoGet == [ret |-> "none", held |-> Undefined, phase |-> "fetch"]

InitialDisks ==
  {NoFile, File(Garbage)} \cup {File(serialize(v)) : v \in Values}

Init ==
  /\ refreshIntervalMillis \in RefreshIntervals
  /\ localDir \in BOOLEAN
  /\ disk \in (IF localDir THEN InitialDisks ELSE {NoFile})
  /\ status = "initializing"
  /\ instance = Undefined
  /\ lastRefresh = NoDate
  /\ lastModified = NoDate
  /\ stopping = FALSE
  /\ intervalToClear = FALSE
  /\ instancePromise = Pending
  /\ coldPc = "fetch"
  /\ coldError = NoError
  /\ timer = NoTimer
  /\ inflight = {}
  /\ writes = {}
  /\ now = 1
  /\ gets = [c \in Callers |-> NoGet]
  /\ coldFetches = 1
  /\ schedFetches = 0
  /\ fetchAfterStop = FALSE
  /\ schedCalls = 0
  /\ lastOutcome = NoOutcome

\* ------------------------------------------------------------- cache
\* Whether fs.mkdirSync or the serializer may throw inside saveLocalCache:
\* only when a cache directory is configured.
SaveThrows == IF localDir THEN {FALSE, TRUE} ELSE {FALSE}

\* The fs.writeFile calls in progress after saveLocalCache(definition, v)
\* returned normally.
saveLocalCache(v) ==
  IF localDir THEN writes \cup {serialize(v)} ELSE writes

NoCache == [found |-> FALSE, updateDate |-> NoDate, instance |-> Undefined]

\* loadFromCache that returns the file's text without parsing it.
loadFromCacheUnparsed ==
  IF localDir /\ disk.exists /\ deserialize(disk.text) # Undefined
  THEN [found |-> TRUE, updateDate |-> CacheMtime, instance |-> disk.text]
  ELSE NoCache

loadFromCache ==
  IF localDir /\ disk.exists /\ deserialize(disk.text) # Undefined
  THEN [found |-> TRUE, updateDate |-> CacheMtime,
        instance |-> deserialize(disk.text)]
  ELSE NoCache

\* The callback of fs.writeFile: the write took effect, or failed (logged).
writeDone(t, failed) ==
  /\ t \in writes
  /\ writes' = writes \ {t}
  /\ disk' = IF failed THEN disk ELSE File(t)
  /\ UNCHANGED <<defVars, status, instance, lastRefresh, lastModified,
                 stopping, intervalToClear, instancePromise, coldPc,
                 coldError, timer, inflight, now, gets, obsVars, schedCalls,
                 lastOutcome>>

\* ------------------------------------------------------------- scheduler
\* (function loop() { if (stopping) return; setTimeout(..., 1) })()
loop == IF stopping THEN NoTimer ELSE Timeout(now + LoopDelay)

scheduleStoreRefresh ==
  /\ schedCalls' = schedCalls + 1
  /\ IF refreshIntervalMillis > 0
     THEN /\ intervalToClear' = TRUE
          /\ timer' = Interval(now + refreshIntervalMillis)
     ELSE /\ intervalToClear' = intervalToClear
          /\ timer' = loop

\* refresh() with overlap prevention: skipped while an earlier call awaits.
startRefreshExclusive ==
  IF inflight # {}
  THEN UNCHANGED <<inflight, obsVars>>
  ELSE /\ inflight' = {[id |-> schedFetches + 1, since |-> lastModified]}
       /\ schedFetches' = schedFetches + 1
       /\ fetchAfterStop' = (fetchAfterStop \/ stopping)
       /\ coldFetches' = coldFetches

\* refresh() up to its await: definition.refresh(lastModified) is invoked.
startRefresh ==
  /\ inflight' = inflight \cup {[id |-> schedFetches + 1, since |-> lastModified]}
  /\ schedFetches' = schedFetches + 1
  /\ fetchAfterStop' = (fetchAfterStop \/ stopping)
  /\ coldFetches' = coldFetches

\* The setInterval callback.
intervalTick ==
  /\ timer.kind = "interval"
  /\ now >= timer.due
  /\ timer' = Interval(now + refreshIntervalMillis)
  /\ IF stopping
     THEN UNCHANGED <<inflight, obsVars>>
     ELSE startRefresh
  /\ UNCHANGED <<defVars, status, instance, lastRefresh, lastModified,
                 stopping, intervalToClear, instancePromise, coldPc,
                 coldError, disk, writes, now, gets, schedCalls,
                 lastOutcome>>

\* A timer callback that calls loop() without awaiting refresh().
timeoutFireRearming ==
  /\ timer.kind = "timeout"
  /\ now >= timer.due
  /\ timer' = loop
  /\ startRefresh
  /\ UNCHANGED <<defVars, status, instance, lastRefresh, lastModified,
                 stopping, intervalToClear, instancePromise, coldPc,
                 coldError, disk, writes, now, gets, schedCalls,
                 lastOutcome>>

\* The setTimeout callback of loop(), up to the await inside refresh().
timeoutFire ==
  /\ timer.kind = "timeout"
  /\ now >= timer.due
  /\ timer' = NoTimer
  /\ startRefresh
  /\ UNCHANGED <<defVars, status, instance, lastRefresh, lastModified,
                 stopping, intervalToClear, instancePromise, coldPc,
                 coldError, disk, writes, now, gets, schedCalls,
                 lastOutcome>>

\* What follows `await refresh()` in the timer callback: loop() in loop
\* mode, nothing in interval mode. The continuation runs in the microtask
\* after refresh() returns and is taken in the same step: a stop() between
\* the two only leaves the timer unarmed, a state that stop() during the
\* fetch reaches as well.
afterRefresh == IF refreshIntervalMillis > 0 THEN timer ELSE loop

\* lastModified after a fresh outcome of a scheduled refresh.
refreshedMarker(res) ==
  IF res.lastModified # NoDate THEN res.lastModified ELSE lastModified

\* if (newDef !== "not_modified") without the test: the sentinel is taken
\* for a value.
isFreshAlways(res) == TRUE

\* if (newDef !== "not_modified")
isFresh(res) == res # NotModified

\* refresh() after definition.refresh(lastModified) resolved with res.
refreshResolved(r, res, throws) ==
  /\ r \in inflight
  /\ inflight' = inflight \ {r}
  /\ timer' = afterRefresh
  /\ IF ~isFresh(res)
     THEN /\ status' = "ok"
          /\ lastRefresh' = now
          /\ lastOutcome' = Ended("not_modified", r, Undefined)
          /\ UNCHANGED <<instance, lastModified, writes>>
     ELSE IF throws
     THEN /\ status' = "outdated"
          /\ lastOutcome' = Ended("save threw", r, Undefined)
          /\ UNCHANGED <<instance, lastModified, lastRefresh, writes>>
     ELSE /\ writes' = saveLocalCache(res.store)
          /\ lastModified' = refreshedMarker(res)
          /\ instance' = res.store
          /\ status' = "ok"
          /\ lastRefresh' = now
          /\ lastOutcome' = Ended("fresh", r, res.store)
  /\ UNCHANGED <<defVars, stopping, intervalToClear, instancePromise,
                 coldPc, coldError, disk, now, gets, obsVars, schedCalls>>

\* refresh() after definition.refresh(lastModified) rejected.
refreshRejected(r) ==
  /\ r \in inflight
  /\ inflight' = inflight \ {r}
  /\ timer' = afterRefresh
  /\ status' = "outdated"
  /\ lastOutcome' = Ended("rejected", r, Undefined)
  /\ UNCHANGED <<defVars, instance, lastRefresh, lastModified, stopping,
                 intervalToClear, instancePromise, coldPc, coldError, disk,
                 writes, now, gets, obsVars, schedCalls>>

\* ------------------------------------------------------------- cold load
\* if (res === "not_modified") without the test: the sentinel is taken for
\* a store.
coldNotModifiedIgnored(res) == FALSE

\* if (res === "not_modified") in the .then handler of the cold load
coldNotModified(res) == res = NotModified

\* The .then handler of the cold definition.refresh().
coldThen(res, throws) ==
  /\ coldPc = "fetch"
  /\ IF coldNotModified(res)
     THEN /\ coldPc' = "catch"
          /\ coldError' = NotModifiedError
          /\ UNCHANGED <<status, instance, lastRefresh, lastModified,
                         intervalToClear, instancePromise, timer, writes,
                         schedCalls>>
     ELSE /\ lastModified' = res.lastModified
          /\ instance' = res.store
          /\ IF throws
             THEN /\ coldPc' = "catch"
                  /\ coldError' = Err("save failed")
                  /\ UNCHANGED <<status, lastRefresh, intervalToClear,
                                 instancePromise, timer, writes, schedCalls>>
             ELSE /\ writes' = saveLocalCache(res.store)
                  /\ status' = "ok"
                  /\ lastRefresh' = now
                  /\ scheduleStoreRefresh
                  /\ instancePromise' = Resolved(res.store)
                  /\ coldPc' = "done"
                  /\ coldError' = coldError
  /\ UNCHANGED <<defVars, stopping, inflight, disk, now, gets, obsVars,
                 lastOutcome>>

\* The cold definition.refresh() rejected with an Error of message e: the
\* rejection passes the .then and reaches the .catch handler.
coldRejected(e) ==
  /\ coldPc = "fetch"
  /\ coldPc' = "catch"
  /\ coldError' = Err(e)
  /\ UNCHANGED <<defVars, status, instance, lastRefresh, lastModified,
                 stopping, intervalToClear, instancePromise, timer, inflight,
                 disk, writes, now, gets, obsVars, schedCalls,
                 lastOutcome>>

\* A rejection that drops the message of the fetch operation's error.
catchSettlesGeneric(cachedInstance) ==
  IF ~cachedInstance.found
  THEN Rejected([message |-> "Failed to initialize store", cause |-> ""])
  ELSE Resolved(cachedInstance.instance)

\* reject(new Error(...)) or resolve(cachedInstance.instance)
catchSettles(cachedInstance) ==
  IF ~cachedInstance.found
  THEN Rejected(InitError(coldError))
  ELSE Resolved(cachedInstance.instance)

\* The .catch handler of the cold load.
coldCatch ==
  /\ coldPc = "catch"
  /\ coldPc' = "done"
  /\ LET cachedInstance == loadFromCache IN
       /\ instancePromise' = catchSettles(cachedInstance)
       /\ IF ~cachedInstance.found
          THEN /\ status' = "failed"
               /\ UNCHANGED <<instance, lastRefresh, intervalToClear, timer,
                              schedCalls>>
          ELSE /\ instance' = cachedInstance.instance
               /\ lastRefresh' = cachedInstance.updateDate
               /\ status' = "outdated"
               /\ scheduleStoreRefresh
  /\ UNCHANGED <<defVars, lastModified, stopping, coldError, inflight, disk,
                 writes, now, gets, obsVars,
                 lastOutcome>>

\* ------------------------------------------------------------- facade
getCurrent == instance

\* What get() returns: Promise.resolve(instance), or instancePromise.
getReturns == IF Truthy(instance) THEN "direct" ELSE "shared"

\* get() without the shared promise: a call that finds no value starts a
\* cold load of its own.
getRefetching(c) ==
  /\ gets' = [gets EXCEPT ![c] =
                [ret |-> getReturns, held |-> instance, phase |-> coldPc]]
  /\ IF instance = Undefined
     THEN /\ status' = "initializing"
          /\ coldPc' = "fetch"
          /\ coldFetches' = coldFetches + 1
     ELSE UNCHANGED <<status, coldPc, coldFetches>>
  /\ UNCHANGED <<defVars, instance, lastRefresh, lastModified, stopping,
                 intervalToClear, instancePromise, coldError, timer, inflight,
                 disk, writes, now, schedFetches, fetchAfterStop, schedCalls,
                 lastOutcome>>

get(c) ==
  /\ gets' = [gets EXCEPT ![c] =
                [ret |-> getReturns, held |-> instance, phase |-> coldPc]]
  /\ UNCHANGED <<defVars, status, instance, lastRefresh, lastModified,
                 stopping, intervalToClear, instancePromise, coldPc,
                 coldError, timer, inflight, disk, writes, now, obsVars,
                 schedCalls,
                 lastOutcome>>

\* The state of the promise that caller c's latest get() returned.
Outcome(c) ==
  IF gets[c].ret = "direct" THEN Resolved(gets[c].held) ELSE instancePromise

\* clearInterval(intervalToClear)
clearInterval == IF timer.kind = "interval" THEN NoTimer ELSE timer

stop ==
  /\ stopping' = TRUE
  /\ timer' = IF intervalToClear THEN clearInterval ELSE timer
  /\ status' = "stopped"
  /\ UNCHANGED <<defVars, instance, lastRefresh, lastModified,
                 intervalToClear, instancePromise, coldPc, coldError,
                 inflight, disk, writes, now, gets, obsVars, schedCalls,
                 lastOutcome>>

\* A millisecond passes.
Tick ==
  /\ now < MaxTime
  /\ now' = now + 1
  /\ UNCHANGED <<defVars, status, instance, lastRefresh, lastModified,
                 stopping, intervalToClear, instancePromise, coldPc,
                 coldError, timer, inflight, disk, writes, gets, obsVars,
                 schedCalls,
                 lastOutcome>>

Next ==
  \/ \E res \in Outcomes, throws \in SaveThrows : coldThen(res, throws)
  \/ \E e \in FetchErrors : coldRejected(e)
  \/ coldCatch
  \/ intervalTick
  \/ timeoutFire
  \/ \E r \in inflight, res \in Outcomes, throws \in SaveThrows :
       refreshResolved(r, res, throws)
  \/ \E r \in inflight : refreshRejected(r)
  \/ \E t \in writes, failed \in BOOLEAN : writeDone(t, failed)
  \/ \E c \in Callers : get(c)
  \/ stop
  \/ Tick

Spec == Init /\ [][Next]_vars

TypeOK ==
  /\ status \in {"ok", "initializing", "outdated", "failed", "stopped"}
  /\ instance \in Values \cup {Undefined}
  /\ lastRefresh \in {NoDate} \cup (CacheMtime .. MaxTime)
  /\ lastModified \in {NoDate} \cup Markers
  /\ coldPc \in {"fetch", "catch", "done"}
  /\ instancePromise.state \in {"pending", "resolved", "rejected"}

\* ------------------------------------------------------------- properties
\* The cold definition.refresh() rejected (it neither resolved nor was
\* followed by a throwing save).
ColdFetchFailed == coldError.message \in FetchErrors

\* The cache directory is configured and the cache file parses.
SnapshotReadable ==
  localDir /\ disk.exists /\ \E v \in Values : disk.text = serialize(v)

SnapshotValue == CHOOSE v \in Values : disk.text = serialize(v)

C2_GetNeverBlocksOnceValueHeld ==
  \A c \in Callers :
    gets[c].ret # "none" /\ gets[c].phase = "done" /\ gets[c].held # Undefined
      => Outcome(c).state = "resolved"

\* C3: a get() issued after the cold load settled and while a value is held
\* resolves to the value that getCurrent() returned at that moment.
C3_GetResolvesToCurrent ==
  \A c \in Callers :
    gets[c].ret # "none" /\ gets[c].phase = "done" /\ gets[c].held # Undefined
       /\ Outcome(c).state = "resolved"
      => Outcome(c).value = gets[c].held

\* C4: when the .catch handler runs after the cold fetch rejected and the
\* snapshot is readable, the store holds the snapshot's value, status is
\* outdated, scheduleStoreRefresh() has run (a timer is armed unless stop()
\* came first), and the callers waiting on instancePromise resolve with the
\* snapshot's value.
C4_ColdFailureFallsBackToSnapshot ==
  [][(coldPc = "catch" /\ coldPc' = "done" /\ ColdFetchFailed
        /\ SnapshotReadable)
      => /\ instance' = SnapshotValue
         /\ status' = "outdated"
         /\ schedCalls' = schedCalls + 1
         /\ (~stopping => timer'.kind # "none")
         /\ \A c \in Callers :
              gets[c].ret = "shared" => Outcome(c)' = Resolved(SnapshotValue)
    ]_vars

C4_Witness ==
  /\ coldPc = "done" /\ ColdFetchFailed
  /\ status = "outdated" /\ lastRefresh = CacheMtime
  /\ schedCalls = 1 /\ timer.kind # "none"
  /\ \E c \in Callers :
       gets[c].phase = "fetch" /\ gets[c].ret = "shared"
         /\ Outcome(c) = Resolved(instance)

\* The cold fetch rejected and the .catch handler found no snapshot.
ColdFailedNoSnapshot ==
  coldPc = "done" /\ ColdFetchFailed /\ ~SnapshotReadable

C6_FailedForever == [][status = "failed" => status' = "failed"]_vars

\* C6: once failed, status stays failed until stop() is called, which
\* makes it stopped; no get() and no other step changes it.
C6_FailedUntilStop ==
  [][status = "failed"
       => \/ status' = "failed"
          \/ (status' = "stopped" /\ stopping')]_vars

C6_Witness ==
  /\ status = "failed"
  /\ \E c \in Callers : gets[c].ret # "none" /\ gets[c].phase = "done"
  /\ now > 1

\* C7: once stop() has been called, status is stopped.
C7_StoppedStays == stopping => status = "stopped"

\* C8: no invocation of the fetch operation starts after stop().
C8_NoFetchAfterStop == ~fetchAfterStop

\* C9: once the cold load has settled, stop() and every step after stop()
\* leave the held value, lastRefresh and lastModified unchanged.
C9_FrozenAfterStop ==
  [][coldPc = "done" /\ (stopping \/ stopping')
       => /\ instance' = instance
          /\ lastRefresh' = lastRefresh
          /\ lastModified' = lastModified]_vars

\* C10: while stop() has not been called, every cold load and every
\* scheduled refresh whose fetch resolves with a fresh value leaves status
\* ok, the fetched value held, lastModified replaced exactly when a marker
\* came with it, and lastRefresh strictly later than before.
C10_FreshRefreshOk ==
  [][~stopping =>
      \A res \in FreshOutcomes, throws \in SaveThrows :
        /\ coldThen(res, throws)
             => /\ status' = "ok" /\ instance' = res.store
                /\ lastModified' = res.lastModified
                /\ lastRefresh' > lastRefresh
        /\ \A r \in inflight :
             refreshResolved(r, res, throws)
               => /\ status' = "ok" /\ instance' = res.store
                  /\ lastModified' = (IF res.lastModified # NoDate
                                      THEN res.lastModified
                                      ELSE lastModified)
                  /\ lastRefresh' > lastRefresh
    ]_vars

\* C11 as claimed: a scheduled refresh that returns "not_modified" leaves
\* the held value, lastModified and the cache untouched, sets status ok and
\* moves lastRefresh forward.
C11_UnchangedAdvancesLastRefresh ==
  [][\A r \in inflight, throws \in SaveThrows :
       refreshResolved(r, NotModified, throws)
         => /\ instance' = instance /\ lastModified' = lastModified
            /\ writes' = writes /\ disk' = disk
            /\ status' = "ok"
            /\ lastRefresh' > lastRefresh]_vars

\* C11: a scheduled refresh that returns "not_modified" leaves the held
\* value, lastModified and the cache untouched, sets status ok and stamps
\* lastRefresh with the current time, which is never earlier than the
\* previous stamp and strictly later in loop mode; in interval mode another
\* refresh may have finished within the same millisecond.
C11_UnchangedStampsLastRefresh ==
  [][\A r \in inflight, throws \in SaveThrows :
       refreshResolved(r, NotModified, throws)
         => /\ instance' = instance /\ lastModified' = lastModified
            /\ writes' = writes /\ disk' = disk
            /\ status' = "ok"
            /\ lastRefresh' = now
            /\ lastRefresh' >= lastRefresh
            /\ (refreshIntervalMillis <= 0 => lastRefresh' > lastRefresh)
    ]_vars

C11_Witness ==
  /\ lastOutcome.kind = "not_modified"
  /\ status = "ok" /\ lastRefresh = now /\ now > 1
  /\ instance # Undefined

\* The promise a get() issued in the current state returns.
GetNow == IF Truthy(instance) THEN Resolved(instance) ELSE instancePromise

\* C12: when the fetch operation of a scheduled refresh fails, the held
\* value, the lastModified marker and lastRefresh are left unchanged, status
\* becomes outdated, getCurrent() and get() keep returning the previous
\* value, and the scheduler is not halted: unless stop() was called a timer
\* is armed for the next attempt.
C12_FailedRefreshKeepsValue ==
  [][\A r \in inflight :
       refreshRejected(r)
         => /\ instance' = instance
            /\ lastModified' = lastModified
            /\ lastRefresh' = lastRefresh
            /\ status' = "outdated"
            /\ getCurrent' = instance
            /\ GetNow' = Resolved(instance)
            /\ (~stopping => timer'.kind # "none")]_vars

\* C13: a failure of the durable-cache save never changes the outcome of a
\* refresh whose fetch succeeded: when the cold load or a scheduled refresh
\* fetched a fresh value and the save throws, the fetched value becomes the
\* held value, status becomes ok, lastRefresh is stamped and the shared
\* promise of the waiting get() callers resolves, as when the save succeeds;
\* a failed file write changes nothing but the set of writes in progress.
C13_SaveFailureNeverFailsRefresh ==
  [][/\ \A res \in FreshOutcomes :
          coldThen(res, TRUE)
            => /\ instance' = res.store
               /\ status' = "ok"
               /\ lastRefresh' = now
               /\ instancePromise' = Resolved(res.store)
     /\ \A r \in inflight, res \in FreshOutcomes :
          refreshResolved(r, res, TRUE)
            => /\ instance' = res.store
               /\ status' = "ok"
               /\ lastRefresh' = now
     /\ \A t \in writes :
          writeDone(t, TRUE)
            => UNCHANGED <<status, instance, lastRefresh, lastModified,
                           instancePromise, disk>>]_vars

\* The cold definition.refresh() resolved with a fresh value (whose save
\* then threw).
ColdFetchedFresh == coldError = Err("save failed")

\* C14: status failed is reached only on the cold path, when the cold-load
\* fetch did not succeed and no durable snapshot could be loaded: whenever
\* the cold-load fetch returned a fresh value, or a snapshot was loaded,
\* status is not failed.
C14_FailedOnlyWithoutFetchAndSnapshot ==
  status = "failed"
    => /\ coldPc = "done"
       /\ schedCalls = 0
       /\ ~ColdFetchedFresh
       /\ coldError # NoError
       /\ ~SnapshotReadable

\* C15: the unchanged sentinel returned by the cold-load invocation is
\* handled as a failed cold load: the .then handler takes no value from it
\* and leaves status alone, status does not become ok before a scheduled
\* fetch, and the .catch handler falls back to the durable snapshot (status
\* outdated, the shared promise resolved with it) when one is readable, and
\* otherwise sets status failed and rejects the shared promise the waiting
\* get() callers hold.
C15_ColdUnchangedIsFailure ==
  [][/\ \A throws \in SaveThrows :
          coldThen(NotModified, throws)
            => /\ coldPc' = "catch" /\ coldError' = NotModifiedError
               /\ instance' = Undefined /\ lastModified' = NoDate
               /\ status' = status /\ instancePromise' = Pending
               /\ schedCalls' = 0
     /\ coldCatch /\ coldError = NotModifiedError
          => IF SnapshotReadable
             THEN /\ status' = "outdated"
                  /\ instance' = SnapshotValue
                  /\ instancePromise' = Resolved(SnapshotValue)
                  /\ schedCalls' = 1
             ELSE /\ status' = "failed"
                  /\ instance' = Undefined
                  /\ instancePromise' = Rejected(InitError(NotModifiedError))
                  /\ schedCalls' = 0
     /\ (coldError' = NotModifiedError /\ schedFetches' = 0
           => status' # "ok")]_vars

C15_Witness ==
  /\ coldError = NotModifiedError /\ coldPc = "done"
  /\ status = "outdated" /\ instance # Undefined
  /\ \E c \in Callers :
       /\ gets[c].ret = "shared" /\ gets[c].phase = "fetch"
       /\ Outcome(c) = Resolved(instance)

\* The status a scheduled refresh() that ended in the given way assigned.
StatusAssigned(kind) ==
  IF kind \in {"fresh", "not_modified"} THEN "ok" ELSE "outdated"

\* C17: in fixed-interval mode a timer tick starts a new fetch even while an
\* earlier scheduled fetch is in flight, passing it the lastModified marker
\* held at that moment; every completion assigns its own outcome whichever
\* invocation it belongs to, so the value and status visible are those
\* assigned by the refresh that completed last (status until stop()
\* overwrites it), regardless of which one started first.
C17_IntervalOverlapLastWins ==
  [][/\ intervalTick /\ ~stopping
          => /\ inflight' = inflight
                   \cup {[id |-> schedFetches + 1, since |-> lastModified]}
             /\ Cardinality(inflight') = Cardinality(inflight) + 1
     /\ \A r \in inflight, res \in FreshOutcomes :
          refreshIntervalMillis > 0 /\ refreshResolved(r, res, FALSE)
            => /\ instance' = res.store
               /\ lastModified' = refreshedMarker(res)
               /\ status' = "ok"
     /\ refreshIntervalMillis' > 0 /\ lastOutcome'.kind # "none"
          => /\ lastOutcome'.kind = "fresh" => instance' = lastOutcome'.store
             /\ status' \in {StatusAssigned(lastOutcome'.kind), "stopped"}
    ]_vars

\* Two scheduled refreshes overlapped and the one started first completed
\* last.
C17_Witness ==
  /\ refreshIntervalMillis > 0
  /\ inflight = {} /\ schedFetches = 2
  /\ lastOutcome.id = 1 /\ lastOutcome.kind = "fresh"
  /\ instance = lastOutcome.store /\ status = "ok"

\* C18: in continuous-loop mode at most one scheduled fetch is in flight at
\* any time, and no timer is armed while it is: the next invocation starts
\* from the timer that the completion of the previous one (fresh, unchanged
\* or failed) armed, once the idle delay has elapsed.
C18_LoopNeverOverlaps ==
  [][/\ refreshIntervalMillis' <= 0
          => /\ Cardinality(inflight') <= 1
             /\ inflight' # {} => timer' = NoTimer
     /\ timeoutFire => inflight = {} /\ now >= timer.due
     /\ \A r \in inflight :
          /\ refreshIntervalMillis <= 0 /\ ~stopping
          /\ \/ refreshRejected(r)
             \/ \E res \in Outcomes, throws \in SaveThrows :
                  refreshResolved(r, res, throws)
          => /\ inflight' = {}
             /\ timer' = Timeout(now + LoopDelay)]_vars

\* The loop's second invocation is in flight, after the first completed.
C18_Witness ==
  /\ refreshIntervalMillis <= 0
  /\ schedFetches = 2 /\ Cardinality(inflight) = 1
  /\ lastOutcome.id = 1 /\ timer = NoTimer

\* The program on a disk whose writes all succeed: Next with the callback of
\* every fs.writeFile reporting no error.
NextWritesSucceed ==
  \/ \E res \in Outcomes, throws \in SaveThrows : coldThen(res, throws)
  \/ \E e \in FetchErrors : coldRejected(e)
  \/ coldCatch
  \/ intervalTick
  \/ timeoutFire
  \/ \E r \in inflight, res \in Outcomes, throws \in SaveThrows :
       refreshResolved(r, res, throws)
  \/ \E r \in inflight : refreshRejected(r)
  \/ \E t \in writes : writeDone(t, FALSE)
  \/ \E c \in Callers : get(c)
  \/ stop
  \/ Tick

SpecWritesSucceed == Init /\ [][NextWritesSucceed]_vars

\* C19: with a cache directory configured and disk writes that succeed,
\* once the cold load is over, no refresh is in flight and every started
\* write has completed, the file on disk is the serialized form of the value
\* the store holds: the fire-and-forget writes never leave an older value
\* on disk than the one in memory.
C19_DiskHoldsLatestValue ==
  /\ localDir /\ coldPc = "done" /\ ~ColdFetchedFresh
  /\ instance # Undefined
  /\ inflight = {} /\ writes = {}
  => disk = File(serialize(instance))

\* C20: status and held value are consistent in every reachable state: with
\* status initializing or failed no value is held and lastRefresh is absent,
\* with status ok or outdated a value is held and lastRefresh is defined;
\* and scheduleStoreRefresh() runs at most once, only after the cold load
\* has produced a value.
C20_StatusValueConsistent ==
  /\ status \in {"initializing", "failed"}
       => getCurrent = Undefined /\ lastRefresh = NoDate
  /\ status \in {"ok", "outdated"}
       => getCurrent # Undefined /\ lastRefresh # NoDate
  /\ schedCalls <= 1
  /\ schedCalls = 1 => coldPc = "done" /\ getCurrent # Undefined

\* ------------------------------------------------------------- recovery
\* A store whose source is down at the cold load and recovers later: the
\* cache file is readable, the cold fetch fails, at most MaxFailures of the
\* scheduled fetches fail, and stop() is not called. The timers fire when
\* due, every fetch settles, and every timer's delay elapses.
InitHealing ==
  /\ Init
  /\ SnapshotReadable

\* refresh() up to its await, with the invocations after the source has
\* recovered counted as one: they all succeed.
healStartRefresh ==
  LET id == IF schedFetches < MaxFailures + 1
            THEN schedFetches + 1 ELSE MaxFailures + 1 IN
    /\ inflight' = inflight \cup {[id |-> id, since |-> lastModified]}
    /\ schedFetches' = id
    /\ fetchAfterStop' = (fetchAfterStop \/ stopping)
    /\ coldFetches' = coldFetches

\* The setInterval callback.
healIntervalTick ==
  /\ timer.kind = "interval"
  /\ now >= timer.due
  /\ timer' = Interval(now + refreshIntervalMillis)
  /\ IF stopping
     THEN UNCHANGED <<inflight, obsVars>>
     ELSE healStartRefresh
  /\ UNCHANGED <<defVars, status, instance, lastRefresh, lastModified,
                 stopping, intervalToClear, instancePromise, coldPc,
                 coldError, disk, writes, now, gets, schedCalls,
                 lastOutcome>>

\* The setTimeout callback of loop(), up to the await inside refresh().
healTimeoutFire ==
  /\ timer.kind = "timeout"
  /\ now >= timer.due
  /\ timer' = NoTimer
  /\ healStartRefresh
  /\ UNCHANGED <<defVars, status, instance, lastRefresh, lastModified,
                 stopping, intervalToClear, instancePromise, coldPc,
                 coldError, disk, writes, now, gets, schedCalls,
                 lastOutcome>>

\* A scheduled fetch returns a fresh value.
healResolved ==
  \E r \in inflight, res \in FreshOutcomes, throws \in SaveThrows :
    refreshResolved(r, res, throws)

\* One of the first MaxFailures scheduled fetches fails.
healRejected ==
  \E r \in inflight : r.id <= MaxFailures /\ refreshRejected(r)

\* The delay of the armed timer elapses. Time is measured from the present
\* instant here, so that the scheduler can run for ever in finitely many
\* states: the timer's due time comes down to now.
TimerWait ==
  /\ timer.kind # "none"
  /\ now < timer.due
  /\ timer' = [timer EXCEPT !.due = now]
  /\ UNCHANGED <<defVars, status, instance, lastRefresh, lastModified,
                 stopping, intervalToClear, instancePromise, coldPc,
                 coldError, now, inflight, disk, writes, gets, obsVars,
                 schedCalls, lastOutcome>>

healWriteDone == \E t \in writes, failed \in BOOLEAN : writeDone(t, failed)

healColdRejected == \E e \in FetchErrors : coldRejected(e)

NextHealing ==
  \/ healColdRejected
  \/ coldCatch
  \/ healIntervalTick
  \/ healTimeoutFire
  \/ healResolved
  \/ healRejected
  \/ healWriteDone
  \/ TimerWait

SpecHealing ==
  /\ InitHealing
  /\ [][NextHealing]_vars
  /\ WF_vars(healColdRejected)
  /\ WF_vars(coldCatch)
  /\ WF_vars(healIntervalTick)
  /\ WF_vars(healTimeoutFire)
  /\ WF_vars(healResolved \/ healRejected)
  /\ WF_vars(TimerWait)

\* The store serves the snapshot after the failed cold load.
FellBackToSnapshot ==
  coldPc = "done" /\ status = "outdated" /\ schedFetches = 0

\* A scheduled refresh succeeded and its value is held.
Healed ==
  /\ status = "ok"
  /\ lastOutcome.kind = "fresh"
  /\ instance = lastOutcome.store

\* C16: self-healing. After a cold load that fell back to the durable
\* snapshot (status outdated), with stop() never called and a fetch
\* operation that fails finitely often and then succeeds, the scheduler
\* keeps invoking it and eventually status is ok and the held value is the
\* fetched one, in interval mode and in continuous-loop mode.
C16_SelfHealing == FellBackToSnapshot ~> Healed

====
